---- MODULE Spec2Model ----
(***************************************************************************)
(* Extension update subsystem of the CLI: the transactional updater        *)
(* (updateExtension), the batch orchestrator (updateAllUpdatableExtensions)*)
(* and the remote version probe (checkForExtensionUpdate).                 *)
(*                                                                         *)
(* Every `await` of the source is one step of the model: a step is the     *)
(* completion of the awaited operation together with the synchronous code  *)
(* that runs up to the next `await` (or to the return / throw).            *)
(***************************************************************************)
EXTENDS Integers, Sequences, FiniteSets, TLC

\* ------------------------------------------------------------------ bounds
MaxExt == 2          \* installed extensions, named 1..MaxExt in collection order
MaxDataFiles == 1    \* files of an extension directory besides its manifest
MaxRemotes == 2      \* remotes the adapter lists
MaxLen == 3          \* characters of a remote listing
MaxHashLen == 1      \* characters of a local revision identifier

Ext == 1..MaxExt
DataFiles == 1..MaxDataFiles
Inv == {"A"}         \* the invocation of the orchestrator / the direct caller
Invocations == {"A", "B"}   \* with a second invocation of the orchestrator
Exec == Invocations \X Ext  \* one updateExtension execution per invocation and extension

\* ------------------------------------------------------------- data model
Absent == "absent"   \* no entry in the state mapping (Map.get gives undefined)

ExtensionUpdateState ==
  {"NOT_UPDATABLE", "CHECKING_FOR_UPDATES", "UP_TO_DATE", "UPDATE_AVAILABLE",
   "UPDATING", "UPDATED_NEEDS_RESTART", "ERROR"}

Unset == "unset"     \* extension.type is undefined
ExtensionTypes == {"git", "github-release", "local", "link"}
NoRef == "none"      \* extension.ref is undefined
Refs == {NoRef, "my-ref"}

\* A file is missing ("none"), has its pre-update bytes ("old") or the bytes
\* of the release being installed ("new").  The manifest's bytes stand for the
\* version it declares.
Cell == {"none", "old", "new"}
Content == [manifest : Cell, data : [DataFiles -> Cell]]
EmptyDir == [manifest |-> "none", data |-> [f \in DataFiles |-> "none"]]

\* What can be installed before an update: a loadable manifest and any files.
InstalledContent ==
  {c \in Content : c.manifest = "old" /\ \A f \in DataFiles : c.data[f] \in {"none", "old"}}
\* What the source can deliver: any files, with or without a loadable manifest.
RemoteContent ==
  {c \in Content : c.manifest \in {"none", "new"}
                   /\ \A f \in DataFiles : c.data[f] \in {"none", "new"}}

\* The files a failed operation got through before it failed.
Part == [manifest : BOOLEAN, data : [DataFiles -> BOOLEAN]]
NoPart == [manifest |-> FALSE, data |-> [f \in DataFiles |-> FALSE]]

\* ------------------------------------------------- collaborators (extension.js)
\* copyExtension(source, destination): recursive copy of source over destination.
\* Files of the source replace their namesakes; other files of the
\* destination stay.
CopyOver(dst, src) ==
  [manifest |-> IF src.manifest # "none" THEN src.manifest ELSE dst.manifest,
   data |-> [f \in DataFiles |->
               IF src.data[f] # "none" THEN src.data[f] ELSE dst.data[f]]]

\* The part p of content c (the rest missing).
Only(c, p) ==
  [manifest |-> IF p.manifest THEN c.manifest ELSE "none",
   data |-> [f \in DataFiles |-> IF p.data[f] THEN c.data[f] ELSE "none"]]

\* copyExtension that failed after copying the part p of the source.
CopyPart(dst, src, p) == CopyOver(dst, Only(src, p))

\* uninstallExtension that failed after removing the part p of the directory.
RemovePart(d, p) ==
  [manifest |-> IF p.manifest THEN "none" ELSE d.manifest,
   data |-> [f \in DataFiles |-> IF p.data[f] THEN "none" ELSE d.data[f]]]

\* loadExtension(dir): the manifest's declared version, or "none" (null) when
\* the directory holds no loadable manifest.
LoadExtension(d) == d.manifest

\* ------------------------------------------------------------------ errors
NoError == "none"
ErrTypeUnknown(e) == "Extension " \o ToString(e) \o " cannot be updated, type is unknown."
ErrLinked == "Extension is linked so does not need to be updated"
ErrNotFound == "Updated extension not found after installation."
ErrCreateTmp == "createTmpDir failed"
ErrBackup == "copyExtension to backup failed"
ErrUninstall == "uninstallExtension failed"
ErrInstall == "installExtension failed"
ErrRollback == "copyExtension from backup failed"

\* ------------------------------------------------------------------- state
VARIABLES
  extensions,       \* Ext -> [type, version]: the GeminiCLIExtension objects
  extensionsState,  \* Ext -> state or Absent: the externally held mapping
  dir,              \* Ext -> Content: the extension's install path on disk
  remote,           \* Ext -> Content: what installExtension delivers
  exec,             \* Exec -> the updateExtension execution
  batch,            \* Inv -> the updateAllUpdatableExtensions invocation
  probe,            \* the checkForExtensionUpdate execution
  partialIO,        \* a failing file operation may have done part of its work
  probes,           \* Ext -> the probe checkForAllExtensionUpdates runs for it
  probeAll,         \* the checkForAllExtensionUpdates invocation
  clone,            \* the cloneFromGit execution
  policy,           \* a createPolicyEngineConfig call: arguments and result
  confirmation      \* a sanitizeConfirmationDetails call: argument and result

vars == <<extensions, extensionsState, dir, remote, exec, batch, probe, partialIO,
          probes, probeAll, clone, policy, confirmation>>

\* An ExtensionUpdateInfo, or no result.
NoInfo == [name |-> 0, originalVersion |-> "none", updatedVersion |-> "none"]

\* kind: "pending" (not settled), "undefined" (resolved without a result),
\* "info" (resolved with an ExtensionUpdateInfo), "rejected" (threw error).
Pending == [kind |-> "pending", error |-> NoError, info |-> NoInfo]
Undefined == [kind |-> "undefined", error |-> NoError, info |-> NoInfo]
Rejected(err) == [kind |-> "rejected", error |-> err, info |-> NoInfo]
Resolved(info) == [kind |-> "info", error |-> NoError, info |-> info]

\* The arguments of installExtension: the install metadata and the force flag.
\* An extension's source is named by the extension: remote[e] is what it holds.
NoInstallArgs == [source |-> 0, type |-> "none", ref |-> NoRef, force |-> FALSE]

IdleExec ==
  [pc |-> "idle",            \* idle, createTmpDir, backup, uninstall, install,
                             \* rollback, cleanup, done
   caller |-> "none",        \* none, direct, batch
   currentState |-> Absent,  \* the currentState argument
   reported |-> <<>>,        \* states passed to setExtensionUpdateState, in order
   ops |-> <<>>,             \* collaborator calls made, in order
   tempDir |-> FALSE,        \* the backup workspace exists
   backup |-> EmptyDir,      \* contents of the backup workspace
   originalVersion |-> "none",
   installArgs |-> NoInstallArgs,  \* what installExtension was called with
   updatedExtension |-> "unloaded",  \* loadExtension's answer: "none" is null
   before |-> EmptyDir,      \* history: the extension directory when called
   caught |-> NoError,       \* the error the catch block rethrows
   result |-> NoInfo,        \* the value the try block returns
   outcome |-> Pending]

IdleBatch == [pc |-> "idle", passed |-> [e \in Ext |-> Absent],
              members |-> {}, error |-> NoError, result |-> <<>>]


\* The parts a failing file operation can have got through.
FailedParts == IF partialIO THEN Part ELSE {NoPart}

Last(s) == s[Len(s)]
Min(S) == CHOOSE m \in S : \A n \in S : m <= n

\* ------------------------------------------------ updateExtension (lines 27-88)
\* The synchronous head of updateExtension, up to its first await: the
\* execution that a call for extension e with currentState cur starts.
NeverBusy(cur) == FALSE

\* The test of line 33.
AlreadyUpdating(cur) == cur = "UPDATING"

NoTypeUnknown(t) == FALSE

\* The test of line 37.
TypeUnknown(t) == t = Unset

NothingLinked(t) == FALSE

\* The test of line 43.
Linked(t) == t = "link"

UpdateExtensionCall(e, cur, who) ==
  LET x == [IdleExec EXCEPT !.caller = who, !.currentState = cur,
                            !.before = dir[e]] IN
  IF AlreadyUpdating(cur)
  THEN [x EXCEPT !.pc = "done", !.outcome = Undefined]
  ELSE IF TypeUnknown(extensions[e].type)
  THEN [x EXCEPT !.pc = "done", !.reported = <<"UPDATING", "ERROR">>,
                 !.outcome = Rejected(ErrTypeUnknown(e))]
  ELSE IF Linked(extensions[e].type)
  THEN [x EXCEPT !.pc = "done", !.reported = <<"UPDATING", "UP_TO_DATE">>,
                 !.outcome = Rejected(ErrLinked)]
  ELSE [x EXCEPT !.pc = "createTmpDir", !.reported = <<"UPDATING">>,
                 !.originalVersion = extensions[e].version,
                 !.ops = <<"createTmpDir">>]

CatchWrapped(x, err) ==
  [x EXCEPT !.reported = Append(@, "ERROR"), !.caught = "Failed to update extension",
            !.pc = "rollback", !.ops = Append(@, "copyExtension(rollback)")]

\* The catch block up to its await (lines 78-83): report ERROR, start the
\* rollback copy, remember the error to rethrow.
Catch(x, err) ==
  [x EXCEPT !.reported = Append(@, "ERROR"), !.caught = err,
            !.pc = "rollback", !.ops = Append(@, "copyExtension(rollback)")]

\* The state observer callback.  A batch's callback (lines 111-117) writes the
\* reported state into the extension's entry of the mapping; a direct caller's
\* callback is only recorded in the execution's `reported`.
Publish(map, e, old, new) ==
  IF new.caller = "batch" /\ Len(new.reported) > Len(old.reported)
  THEN [map EXCEPT ![e] = Last(new.reported)]
  ELSE map

\* The ExtensionUpdateInfo records of the members that resolved with one, in
\* collection order (the .filter of line 121).
InfoList(ex, i, members) ==
  LET order == SelectSeq([k \in 1..MaxExt |-> k],
                         LAMBDA e : e \in members /\ ex[<<i, e>>].outcome.kind = "info")
  IN [k \in 1..Len(order) |-> ex[<<i, order[k]>>].outcome.info]

\* Promise.all over the members' promises (line 99): rejects with the first
\* rejection, resolves once every member has resolved.  Members keep running
\* after a rejection.
PromiseAll(b, ex, i) ==
  IF b.pc # "pending" THEN b
  ELSE LET rej == {e \in b.members : ex[<<i, e>>].outcome.kind = "rejected"} IN
       IF rej # {}
       THEN [b EXCEPT !.pc = "rejected", !.error = ex[<<i, Min(rej)>>].outcome.error]
       ELSE IF \A e \in b.members : ex[<<i, e>>].outcome.kind # "pending"
       THEN [b EXCEPT !.pc = "resolved", !.result = InfoList(ex, i, b.members)]
       ELSE b

\* One step of execution u: its record becomes x and its directory d.
Step(u, x, d) ==
  LET ex == [exec EXCEPT ![u] = x] IN
  /\ exec' = ex
  /\ dir' = [dir EXCEPT ![u[2]] = d]
  /\ extensionsState' = Publish(extensionsState, u[2], exec[u], x)
  /\ batch' = [batch EXCEPT ![u[1]] = PromiseAll(@, ex, u[1])]
  /\ UNCHANGED <<extensions, remote, probe, partialIO, probes, probeAll, clone, policy, confirmation>>

\* A direct call of updateExtension(extension e, cwd, cur, callback).
DirectCall(u, cur) ==
  /\ \A v \in Exec : exec[v].pc = "idle"
  /\ \A i \in Invocations : batch[i].pc = "idle"
  /\ Step(u, UpdateExtensionCall(u[2], cur, "direct"), dir[u[2]])

\* line 49: ExtensionStorage.createTmpDir() settles.  A rejection is outside
\* the try block and leaves the function at once.
CreateTmpDirDone(u) ==
  /\ exec[u].pc = "createTmpDir"
  /\ \E ok \in BOOLEAN :
       Step(u,
            IF ok
            THEN [exec[u] EXCEPT !.tempDir = TRUE, !.backup = EmptyDir, !.pc = "backup",
                                 !.ops = Append(@, "copyExtension")]
            ELSE [exec[u] EXCEPT !.pc = "done", !.outcome = Rejected(ErrCreateTmp)],
            dir[u[2]])

\* line 51: copyExtension(extension.path, tempDir) settles.
BackupDone(u) ==
  /\ exec[u].pc = "backup"
  /\ \/ Step(u, [exec[u] EXCEPT !.backup = CopyOver(@, dir[u[2]]), !.pc = "uninstall",
                                !.ops = Append(@, "uninstallExtension")],
             dir[u[2]])
     \/ \E p \in FailedParts :
          Step(u, Catch([exec[u] EXCEPT !.backup = CopyPart(@, dir[u[2]], p)], ErrBackup),
               dir[u[2]])

InstallCallUnforced(x, e) ==
  [x EXCEPT !.pc = "install", !.ops = Append(@, "installExtension"),
            !.installArgs = [source |-> e, type |-> extensions[e].type,
                             ref |-> extensions[e].ref, force |-> FALSE]]

\* lines 53-61: installExtension({source, type, ref}, cwd, true) is called.
InstallCall(x, e) ==
  [x EXCEPT !.pc = "install", !.ops = Append(@, "installExtension"),
            !.installArgs = [source |-> e, type |-> extensions[e].type,
                             ref |-> extensions[e].ref, force |-> TRUE]]

\* line 52: uninstallExtension(extension.name, cwd) settles.
UninstallDone(u) ==
  /\ exec[u].pc = "uninstall"
  /\ \/ Step(u, InstallCall(exec[u], u[2]), EmptyDir)
     \/ \E p \in FailedParts :
          Step(u, Catch(exec[u], ErrUninstall), RemovePart(dir[u[2]], p))

\* The steps after install without the test of line 67.
AfterInstallUnverified(x, e, d) ==
  [x EXCEPT !.reported = Append(@, "UPDATED_NEEDS_RESTART"),
            !.updatedExtension = LoadExtension(d),
            !.result = [name |-> e, originalVersion |-> x.originalVersion,
                        updatedVersion |-> LoadExtension(d)],
            !.pc = "cleanup", !.ops = Append(@, "rm")]

AfterInstallStaleVersion(x, e, d) ==
  IF LoadExtension(d) = "none"
  THEN Catch([x EXCEPT !.reported = Append(@, "ERROR"), !.updatedExtension = "none"],
             ErrNotFound)
  ELSE [x EXCEPT !.reported = Append(@, "UPDATED_NEEDS_RESTART"),
                 !.updatedExtension = LoadExtension(d),
                 !.result = [name |-> e, originalVersion |-> x.originalVersion,
                             updatedVersion |-> extensions[e].version],
                 !.pc = "cleanup", !.ops = Append(@, "rm")]

\* lines 63-77: after a successful install, reload the manifest and finish.
AfterInstall(x, e, d) ==
  IF LoadExtension(d) = "none"
  THEN Catch([x EXCEPT !.reported = Append(@, "ERROR"), !.updatedExtension = "none"],
             ErrNotFound)
  ELSE [x EXCEPT !.reported = Append(@, "UPDATED_NEEDS_RESTART"),
                 !.updatedExtension = LoadExtension(d),
                 !.result = [name |-> e, originalVersion |-> x.originalVersion,
                             updatedVersion |-> LoadExtension(d)],
                 !.pc = "cleanup", !.ops = Append(@, "rm")]

\* line 53: installExtension({source, type, ref}, cwd, true) settles.
InstallDone(u) ==
  /\ exec[u].pc = "install"
  /\ \/ Step(u, AfterInstall(exec[u], u[2], remote[u[2]]), remote[u[2]])
     \/ \E p \in FailedParts :
          Step(u, Catch(exec[u], ErrInstall), CopyPart(dir[u[2]], remote[u[2]], p))

\* The rollback of line 83 applied to directory d from backup workspace b.
Rollback(d, b) == CopyOver(d, b)

\* line 83: copyExtension(tempDir, extension.path) settles; then the finally
\* block starts removing the workspace.  A failed rollback replaces the error
\* that is thrown.
RollbackDone(u) ==
  /\ exec[u].pc = "rollback"
  /\ \/ Step(u, [exec[u] EXCEPT !.pc = "cleanup", !.ops = Append(@, "rm")],
             Rollback(dir[u[2]], exec[u].backup))
     \/ \E p \in FailedParts :
          Step(u, [exec[u] EXCEPT !.pc = "cleanup", !.ops = Append(@, "rm"),
                                  !.caught = ErrRollback],
               CopyPart(dir[u[2]], exec[u].backup, p))

\* The removal of line 86 placed after the try block instead of in finally:
\* a throw of the catch block skips it.
CleanupOnlyOnSuccess(u) ==
  /\ exec[u].pc = "cleanup"
  /\ Step(u, IF exec[u].caught # NoError
             THEN [exec[u] EXCEPT !.pc = "done", !.outcome = Rejected(exec[u].caught)]
             ELSE [exec[u] EXCEPT !.tempDir = FALSE, !.backup = EmptyDir, !.pc = "done",
                                  !.outcome = Resolved(exec[u].result)],
          dir[u[2]])

\* The removal of line 86 followed by a return that contains the error of the
\* rollback copy instead of letting it leave the function.
CleanupContainsRollbackFault(u) ==
  /\ exec[u].pc = "cleanup"
  /\ Step(u, [exec[u] EXCEPT !.tempDir = FALSE, !.backup = EmptyDir, !.pc = "done",
                             !.outcome = IF exec[u].caught = ErrRollback THEN Undefined
                                         ELSE IF exec[u].caught # NoError
                                         THEN Rejected(exec[u].caught)
                                         ELSE Resolved(exec[u].result)],
          dir[u[2]])

\* line 86: fs.promises.rm(tempDir, {recursive, force}) settles, and the
\* function returns its result or rethrows.
CleanupDone(u) ==
  /\ exec[u].pc = "cleanup"
  /\ Step(u, [exec[u] EXCEPT !.tempDir = FALSE, !.backup = EmptyDir, !.pc = "done",
                             !.outcome = IF @.kind # "pending" THEN @
                                         ELSE IF exec[u].caught # NoError
                                         THEN Rejected(exec[u].caught)
                                         ELSE Resolved(exec[u].result)],
          dir[u[2]])

UpdaterStep ==
  \E u \in Exec :
    \/ CreateTmpDirDone(u)
    \/ BackupDone(u)
    \/ UninstallDone(u)
    \/ InstallDone(u)
    \/ RollbackDone(u)
    \/ CleanupDone(u)

\* ------------------------------ updateAllUpdatableExtensions (lines 90-122)
\* The whole synchronous part of the call: filter on the passed mapping, start
\* every member's updateExtension up to its first await, hand the promises to
\* Promise.all.
RetryMembers(passed) == {e \in Ext : passed[e] \in {"UPDATE_AVAILABLE", "ERROR"}}

UpdatableMembers(passed) == {e \in Ext : passed[e] = "UPDATE_AVAILABLE"}

\* The updates awaited one after another: only the first member is started
\* by the call.
UpdateAllOneByOne(i) ==
  /\ batch[i].pc = "idle"
  /\ \A u \in Exec : exec[u].pc = "idle"
  /\ LET passed == extensionsState
         members == UpdatableMembers(passed)
         ex == [u \in Exec |->
                  IF u[1] = i /\ u[2] \in members /\ u[2] = Min(members)
                  THEN UpdateExtensionCall(u[2], passed[u[2]], "batch")
                  ELSE exec[u]]
     IN /\ exec' = ex
        /\ extensionsState' =
             [e \in Ext |-> Publish(extensionsState, e, exec[<<i, e>>], ex[<<i, e>>])[e]]
        /\ batch' = [batch EXCEPT ![i] =
             [pc |-> "pending", passed |-> passed, members |-> members,
              error |-> NoError, result |-> <<>>]]
  /\ UNCHANGED <<extensions, dir, remote, probe, partialIO, probes, probeAll, clone, policy, confirmation>>

UpdateAllUpdatableExtensions(i) ==
  /\ batch[i].pc = "idle"
  /\ \A u \in Exec : exec[u].pc = "idle"
  /\ LET passed == extensionsState
         members == UpdatableMembers(passed)
         ex == [u \in Exec |->
                  IF u[1] = i /\ u[2] \in members
                  THEN UpdateExtensionCall(u[2], passed[u[2]], "batch")
                  ELSE exec[u]]
     IN /\ exec' = ex
        /\ extensionsState' =
             [e \in Ext |-> Publish(extensionsState, e, exec[<<i, e>>], ex[<<i, e>>])[e]]
        /\ batch' = [batch EXCEPT ![i] =
             PromiseAll([pc |-> "pending", passed |-> passed, members |-> members,
                         error |-> NoError, result |-> <<>>], ex, i)]
  /\ UNCHANGED <<extensions, dir, remote, probe, partialIO, probes, probeAll, clone, policy, confirmation>>

\* Invocation i of updateAllUpdatableExtensions given the mapping `passed`,
\* whatever else is running.
UpdateAllGiven(i, passed) ==
  /\ batch[i].pc = "idle"
  /\ LET members == UpdatableMembers(passed)
         ex == [u \in Exec |->
                  IF u[1] = i /\ u[2] \in members
                  THEN UpdateExtensionCall(u[2], passed[u[2]], "batch")
                  ELSE exec[u]]
     IN /\ exec' = ex
        /\ extensionsState' =
             [e \in Ext |-> Publish(extensionsState, e, exec[<<i, e>>], ex[<<i, e>>])[e]]
        /\ batch' = [batch EXCEPT ![i] =
             PromiseAll([pc |-> "pending", passed |-> passed, members |-> members,
                         error |-> NoError, result |-> <<>>], ex, i)]
  /\ UNCHANGED <<extensions, dir, remote, probe, partialIO, probes, probeAll, clone, policy, confirmation>>

\* The mappings a caller can hold when it invokes the orchestrator: the one
\* held outside now, or the snapshot an earlier invocation was given.
HeldMappings ==
  {extensionsState} \cup {batch[j].passed : j \in {k \in Invocations : batch[k].pc # "idle"}}

\* --------------------------------------------------- strings of the adapter
Tab == "\t"
Space == " "
Alphabet == {"a", "b", Tab, Space}
HashAlphabet == {"a", "b"}
StringsOver(A, n) == UNION {[1..k -> A] : k \in 0..n}

IsSpace(c) == c \in {Tab, Space}

RECURSIVE TrimStart(_)
TrimStart(s) ==
  IF s = <<>> THEN s ELSE IF IsSpace(Head(s)) THEN TrimStart(Tail(s)) ELSE s

RECURSIVE TrimEnd(_)
TrimEnd(s) ==
  IF s = <<>> THEN s
  ELSE IF IsSpace(s[Len(s)]) THEN TrimEnd(SubSeq(s, 1, Len(s) - 1)) ELSE s

\* String.prototype.trim
Trim(s) == TrimEnd(TrimStart(s))

WholeListing(s) == s

\* lsRemoteOutput.split('\t')[0]
RECURSIVE BeforeFirstTab(_)
BeforeFirstTab(s) ==
  IF s = <<>> THEN <<>>
  ELSE IF Head(s) = Tab THEN <<>>
  ELSE <<Head(s)>> \o BeforeFirstTab(Tail(s))

\* Answers of the adapter.  A remote is given by its fetch URL ("none": the
\* remote has no fetch URL).
NoUrl == "none"
Urls == {NoUrl, "url1", "url2"}
RemoteLists == UNION {[1..k -> Urls] : k \in 0..MaxRemotes}
Listings == StringsOver(Alphabet, MaxLen)
LocalHashes == StringsOver(HashAlphabet, MaxHashLen)

IdleProbe ==
  [pc |-> "idle",          \* idle, getRemotes, listRemote, revparse, done
   caller |-> "none",      \* none, direct
   ext |-> 0,              \* the extension probed
   reported |-> <<>>,      \* states passed to setExtensionUpdateState, in order
   calls |-> <<>>,         \* adapter calls made, in order, with their arguments
   threw |-> "no",         \* which adapter call threw
   remotes |-> <<>>,       \* what getRemotes answered
   isString |-> FALSE,     \* listRemote answered a string
   lsRemoteOutput |-> <<>>,
   localHash |-> <<>>,
   returned |-> "pending"] \* pending, returned, threw

\* ------------------------------------- checkForExtensionUpdate (lines 151-213)
\* Report a terminal state and return.
Finish(x, state) ==
  [x EXCEPT !.reported = Append(@, state), !.pc = "done", !.returned = "returned"]

\* What leaves the function when an adapter call throws with no catch block.
Uncaught(x, call) ==
  [x EXCEPT !.threw = call, !.pc = "done", !.returned = "threw"]

\* The catch block (lines 204-212) for an exception of adapter call `call`.
ProbeCatch(x, call) == Finish([x EXCEPT !.threw = call], "ERROR")

\* The type test of line 157.
NotLinked(t) == t # "link"

RemoteTracked(t) == t = "git"

\* lines 155-164: the synchronous head of the probe of extension e.
CheckForExtensionUpdateCall(e, who) ==
  LET x == [IdleProbe EXCEPT !.caller = who, !.ext = e,
                             !.reported = <<"CHECKING_FOR_UPDATES">>] IN
  IF ~RemoteTracked(extensions[e].type)
  THEN Finish(x, "NOT_UPDATABLE")
  ELSE [x EXCEPT !.pc = "getRemotes", !.calls = <<<<"getRemotes", "true", "">>>>]

AlwaysHead(ref) == "HEAD"

\* line 178: the ref to check on the remote.
RefToCheck(ref) == IF ref # NoRef THEN ref ELSE "HEAD"

\* lines 164-180 without the return of line 168: remotes[0] is then read from
\* an empty list, which throws inside the try block.
AfterGetRemotesNoReturn(x, r) ==
  LET y == [x EXCEPT !.remotes = r] IN
  IF Len(r) = 0
  THEN ProbeCatch([y EXCEPT !.reported = Append(@, "ERROR")], "getRemotes")
  ELSE IF r[1] = NoUrl THEN Finish(y, "ERROR")
  ELSE [y EXCEPT !.pc = "listRemote",
                 !.calls = Append(@, <<"listRemote", r[1],
                                       RefToCheck(extensions[x.ext].ref)>>)]

\* lines 164-180: getRemotes answered the list r.
AfterGetRemotes(x, r) ==
  LET y == [x EXCEPT !.remotes = r] IN
  IF Len(r) = 0 THEN Finish(y, "ERROR")
  ELSE IF r[1] = NoUrl THEN Finish(y, "ERROR")
  ELSE [y EXCEPT !.pc = "listRemote",
                 !.calls = Append(@, <<"listRemote", r[1],
                                       RefToCheck(extensions[x.ext].ref)>>)]

\* lines 180-189 without the test of line 182.
AfterListRemoteUnchecked(x, str, out) ==
  [x EXCEPT !.isString = str, !.lsRemoteOutput = out,
            !.pc = "revparse", !.calls = Append(@, <<"revparse", "HEAD", "">>)]

\* lines 180-189: listRemote answered; str is FALSE when the answer is no string.
AfterListRemote(x, str, out) ==
  LET y == [x EXCEPT !.isString = str, !.lsRemoteOutput = out] IN
  IF ~str \/ Trim(out) = <<>> THEN Finish(y, "ERROR")
  ELSE [y EXCEPT !.pc = "revparse", !.calls = Append(@, <<"revparse", "HEAD", "">>)]

\* The comparison of lines 191-203.
Compare(remoteHash, localHash) ==
  IF remoteHash = <<>> THEN "ERROR"
  ELSE IF remoteHash = localHash THEN "UP_TO_DATE" ELSE "UPDATE_AVAILABLE"

\* lines 188-203: revparse answered the local revision h.
AfterRevparse(x, h) ==
  Finish([x EXCEPT !.localHash = h], Compare(BeforeFirstTab(x.lsRemoteOutput), h))

ProbeStep(x) ==
  /\ probe' = x
  /\ UNCHANGED <<extensions, extensionsState, dir, remote, exec, batch, partialIO,
               probes, probeAll, clone, policy, confirmation>>

\* A direct call of checkForExtensionUpdate(extension e, callback).
DirectProbe(e) ==
  /\ probe.pc = "idle"
  /\ ProbeStep(CheckForExtensionUpdateCall(e, "direct"))

GetRemotesDone ==
  /\ probe.pc = "getRemotes"
  /\ \/ \E r \in RemoteLists : ProbeStep(AfterGetRemotes(probe, r))
     \/ ProbeStep(ProbeCatch(probe, "getRemotes"))

ListRemoteDone ==
  /\ probe.pc = "listRemote"
  /\ \/ \E out \in Listings : ProbeStep(AfterListRemote(probe, TRUE, out))
     \/ ProbeStep(AfterListRemote(probe, FALSE, <<>>))
     \/ ProbeStep(ProbeCatch(probe, "listRemote"))

RevparseDone ==
  /\ probe.pc = "revparse"
  /\ \/ \E h \in LocalHashes : ProbeStep(AfterRevparse(probe, h))
     \/ ProbeStep(ProbeCatch(probe, "revparse"))

\* ------------------------------- checkForAllExtensionUpdates (lines 129-149)
IdleProbeAll ==
  [pc |-> "idle",                       \* idle, awaiting, done
   current |-> 0,                       \* the extension whose probe is awaited
   passed |-> [e \in Ext |-> Absent],   \* the extensionsUpdateState argument
   extensionsUpdateState |-> [e \in Ext |-> Absent],  \* the reassigned parameter
   started |-> <<>>,                    \* history: extensions probed, in order
   returned |-> [e \in Ext |-> Absent], \* the mapping returned
   deferred |-> FALSE,                  \* the setter queues the update functions
   queue |-> <<>>]                      \* update functions queued: <<extension, state>>

\* In the orchestration specifications the adapter gives one of a few answers,
\* enough for every outcome of a probe; SpecProbe covers the full sets.
SomeRemoteLists == {<<>>, <<NoUrl>>, <<"url1">>}
SomeListings == {<<>>, <<Tab>>, <<"a", Tab, "b">>}
SomeLocalHashes == {<<"a">>, <<"b">>}

\* The local variables of a call that has returned are gone.
Returned(x) ==
  IF x.pc = "done"
  THEN [x EXCEPT !.threw = "no", !.remotes = <<>>, !.isString = FALSE,
                 !.lsRemoteOutput = <<>>, !.localHash = <<>>]
  ELSE x

WithEntryOrFailed(state) == state \in {Absent, "ERROR"}

NeverProbedOrUpToDate(state) == state \in {Absent, "UP_TO_DATE"}

\* The test of line 138.
NeverProbed(state) == state = Absent

EveryFrom(map, k) == {e \in Ext : e >= k}

\* The extensions the loop still probes from position k on, given the mapping
\* the loop reads.
NextToProbe(map, k) == {e \in Ext : e >= k /\ NeverProbed(map[e])}

\* A callback that sets the entry on a fresh mapping instead of a copy of the
\* mapping held outside.
ProbeWriteFresh(map, e, old, new) ==
  IF Len(new.reported) > Len(old.reported)
  THEN [f \in Ext |-> IF f = e THEN Last(new.reported) ELSE Absent]
  ELSE map

\* The callback of lines 139-145: the setter's function copies the mapping
\* held outside, sets the probed extension's entry and assigns the copy to
\* the parameter.
ProbeWrite(map, e, old, new) ==
  IF Len(new.reported) > Len(old.reported)
  THEN [map EXCEPT ![e] = Last(new.reported)]
  ELSE map

\* The update functions (lines 140-144) the callback hands to the setter
\* while the probe record goes from old to new, one per reported state.
UpdateFunctions(e, old, new) ==
  [k \in 1..(Len(new.reported) - Len(old.reported)) |->
     <<e, new.reported[Len(old.reported) + k]>>]

\* A step of the probe of extension e started by the loop.  A setter that
\* applies an update function when called runs lines 141-143 at once; a
\* setter that defers only queues the function.
ProbeAllStep(e, x, pa) ==
  LET map == ProbeWrite(extensionsState, e, probes[e], x) IN
  /\ probes' = [probes EXCEPT ![e] = Returned(x)]
  /\ extensionsState' = IF pa.deferred THEN extensionsState ELSE map
  /\ probeAll' = IF pa.deferred
                 THEN [pa EXCEPT !.queue = @ \o UpdateFunctions(e, probes[e], x)]
                 ELSE IF Len(x.reported) > Len(probes[e].reported)
                 THEN [pa EXCEPT !.extensionsUpdateState = map]
                 ELSE pa
  /\ UNCHANGED <<extensions, dir, remote, exec, batch, probe, partialIO,
               clone, policy, confirmation>>

\* The loop from position k: start the probe of the next extension without an
\* entry and await it, or return the mapping.
LoopFrom(pa, k) ==
  IF NextToProbe(pa.extensionsUpdateState, k) = {}
  THEN /\ probeAll' = [pa EXCEPT !.pc = "done", !.current = 0,
                                 !.returned = pa.extensionsUpdateState]
       /\ UNCHANGED <<probes, extensionsState>>
       /\ UNCHANGED <<extensions, dir, remote, exec, batch, probe, partialIO,
               clone, policy, confirmation>>
  ELSE LET e == Min(NextToProbe(pa.extensionsUpdateState, k)) IN
       ProbeAllStep(e, CheckForExtensionUpdateCall(e, "all"),
                    [pa EXCEPT !.pc = "awaiting", !.current = e,
                               !.started = Append(@, e)])

\* The loop without the await of line 139: every probe is started by the call.
CheckForAllAtOnce ==
  /\ probeAll.pc = "idle"
  /\ \A e \in Ext : probes[e].pc = "idle"
  /\ LET todo == NextToProbe(extensionsState, 1)
         ps == [e \in Ext |-> IF e \in todo THEN CheckForExtensionUpdateCall(e, "all")
                              ELSE probes[e]]
         map == [e \in Ext |-> ProbeWrite(extensionsState, e, probes[e], ps[e])[e]]
     IN /\ todo # {}
        /\ probes' = [e \in Ext |-> Returned(ps[e])]
        /\ extensionsState' = map
        /\ probeAll' = [IdleProbeAll EXCEPT
                          !.pc = "awaiting", !.passed = extensionsState,
                          !.extensionsUpdateState = map,
                          !.current = Min(todo),
                          !.started = SelectSeq([k \in 1..MaxExt |-> k],
                                                LAMBDA e : e \in todo)]
  /\ UNCHANGED <<extensions, dir, remote, exec, batch, probe, partialIO,
               clone, policy, confirmation>>

\* The call, for the mapping held outside, up to its first await.
CheckForAllExtensionUpdates ==
  /\ probeAll.pc = "idle"
  /\ \A e \in Ext : probes[e].pc = "idle"
  /\ LoopFrom([IdleProbeAll EXCEPT !.passed = extensionsState,
                                   !.extensionsUpdateState = extensionsState], 1)

\* The call given the mapping `passed`, which may be a snapshot older than
\* the mapping held outside.
CheckForAllGiven(passed) ==
  /\ probeAll.pc = "idle"
  /\ \A e \in Ext : probes[e].pc = "idle"
  /\ LoopFrom([IdleProbeAll EXCEPT !.passed = passed,
                                   !.extensionsUpdateState = passed], 1)

\* The call, for the mapping held outside, with a setter that applies each
\* update function when called or one that defers them.
CheckForAllWithSetter(deferred) ==
  /\ probeAll.pc = "idle"
  /\ \A e \in Ext : probes[e].pc = "idle"
  /\ LoopFrom([IdleProbeAll EXCEPT !.passed = extensionsState,
                                   !.extensionsUpdateState = extensionsState,
                                   !.deferred = deferred], 1)

\* The deferring setter runs the oldest queued update function (lines
\* 141-143): it copies the mapping held outside, sets the entry, assigns the
\* copy to the parameter of the call and makes it the mapping held outside.
ApplyDeferred ==
  /\ probeAll.queue # <<>>
  /\ LET e == Head(probeAll.queue)[1]
         map == [extensionsState EXCEPT ![e] = Head(probeAll.queue)[2]]
     IN /\ extensionsState' = map
        /\ probeAll' = [probeAll EXCEPT !.queue = Tail(@), !.extensionsUpdateState = map]
  /\ UNCHANGED <<extensions, dir, remote, exec, batch, probe, partialIO,
               probes, clone, policy, confirmation>>

\* The awaited probe has returned: the loop goes on.
ProbeAllResume ==
  /\ probeAll.pc = "awaiting"
  /\ probes[probeAll.current].pc = "done"
  /\ LoopFrom(probeAll, probeAll.current + 1)

AllGetRemotesDone(e) ==
  /\ probes[e].pc = "getRemotes"
  /\ \/ \E r \in SomeRemoteLists : ProbeAllStep(e, AfterGetRemotes(probes[e], r), probeAll)
     \/ ProbeAllStep(e, ProbeCatch(probes[e], "getRemotes"), probeAll)

AllListRemoteDone(e) ==
  /\ probes[e].pc = "listRemote"
  /\ \/ \E out \in SomeListings :
          ProbeAllStep(e, AfterListRemote(probes[e], TRUE, out), probeAll)
     \/ ProbeAllStep(e, AfterListRemote(probes[e], FALSE, <<>>), probeAll)
     \/ ProbeAllStep(e, ProbeCatch(probes[e], "listRemote"), probeAll)

AllRevparseDone(e) ==
  /\ probes[e].pc = "revparse"
  /\ \/ \E h \in SomeLocalHashes : ProbeAllStep(e, AfterRevparse(probes[e], h), probeAll)
     \/ ProbeAllStep(e, ProbeCatch(probes[e], "revparse"), probeAll)

ProbesStep ==
  \E e \in Ext :
    \/ AllGetRemotesDone(e)
    \/ AllListRemoteDone(e)
    \/ AllRevparseDone(e)

NoPolicyCall == [pc |-> "idle"]
NoConfirmation == [pc |-> "idle"]

\* ----------------------------------------------- cloneFromGit (github.ts)
\* The clone-and-checkout composite used at install time.
Sources == {"http://my-repo.com", "http://other-repo.com"}
RemoteNames == {"origin", "upstream"}
RemoteNameLists == UNION {[1..k -> RemoteNames] : k \in 0..MaxRemotes}

ErrCloneFailed(source) == "Failed to clone Git repository from " \o source
ErrNoRemotes == "no remotes found"
ErrAdapter(call) == call \o " failed"

IdleClone ==
  [pc |-> "idle",          \* idle, clone, getRemotes, fetch, checkout, done
   source |-> "none",      \* installMetadata.source
   ref |-> NoRef,          \* installMetadata.ref
   calls |-> <<>>,         \* adapter calls made, in order, with their arguments
   remotes |-> <<>>,       \* the names of the remotes getRemotes answered
   cause |-> NoError,      \* the error raised inside the composite
   outcome |-> Pending]

\* An error of the composite that reaches the caller as it was raised.
CloneRethrow(x, err) ==
  [x EXCEPT !.cause = err, !.pc = "done", !.outcome = Rejected(err)]

\* Any error raised inside the composite is caught and raised again as the
\* clone failure of the source.
CloneCatch(x, err) ==
  [x EXCEPT !.cause = err, !.pc = "done", !.outcome = Rejected(ErrCloneFailed(x.source))]

\* After getRemotes answered the list r: no remote is a failure, otherwise the
\* resolved ref is fetched from the first remote.
CloneAfterGetRemotes(x, r) ==
  IF Len(r) = 0 THEN CloneCatch(x, ErrNoRemotes)
  ELSE [x EXCEPT !.pc = "fetch", !.remotes = r,
                 !.calls = Append(@, <<"fetch", r[1], RefToCheck(x.ref)>>)]

CloneStep(x) ==
  /\ clone' = x
  /\ UNCHANGED <<extensions, extensionsState, dir, remote, exec, batch, probe, partialIO,
               probes, probeAll, policy, confirmation>>

\* cloneFromGit(installMetadata, destination) up to its first await.
CloneFromGit ==
  /\ clone.pc = "idle"
  /\ \E src \in Sources, ref \in Refs :
       CloneStep([IdleClone EXCEPT !.pc = "clone", !.source = src, !.ref = ref,
                                   !.calls = <<<<"clone", src, "--depth 1">>>>])

CloneDone ==
  /\ clone.pc = "clone"
  /\ \/ CloneStep([clone EXCEPT !.pc = "getRemotes",
                                !.calls = Append(@, <<"getRemotes", "true", "">>)])
     \/ CloneStep(CloneCatch(clone, ErrAdapter("clone")))

CloneGetRemotesDone ==
  /\ clone.pc = "getRemotes"
  /\ \/ \E r \in RemoteNameLists : CloneStep(CloneAfterGetRemotes(clone, r))
     \/ CloneStep(CloneCatch(clone, ErrAdapter("getRemotes")))

CloneFetchDone ==
  /\ clone.pc = "fetch"
  /\ \/ CloneStep([clone EXCEPT !.pc = "checkout",
                                !.calls = Append(@, <<"checkout", "FETCH_HEAD", "">>)])
     \/ CloneStep(CloneCatch(clone, ErrAdapter("fetch")))

CloneCheckoutDone ==
  /\ clone.pc = "checkout"
  /\ \/ CloneStep([clone EXCEPT !.pc = "done", !.outcome = Undefined])
     \/ CloneStep(CloneCatch(clone, ErrAdapter("checkout")))

\* ------------------------------- createPolicyEngineConfig (policy.ts 17-140)
READ_ONLY_TOOLS ==
  <<"glob", "search_file_content", "list_directory", "read_file", "read_many_files",
    "google_web_search">>
WRITE_TOOLS == <<"replace", "save_memory", "run_shell_command", "write_file", "web_fetch">>

ApprovalModes == {"default", "autoEdit", "yolo"}
AnyTool == "undefined"     \* a rule without toolName
ToolNames == {"run_shell_command", "read_file"}
ServerNames == {"my-server"}
ToolLists == UNION {[1..k -> ToolNames] : k \in 0..MaxLen}
ServerLists == {<<>>} \cup {<<server>> : server \in ServerNames}

\* An absent list is the empty list: both push no rule.
PolicySettings ==
  [allowed : ToolLists, exclude : ToolLists, mcpAllowed : ServerLists,
   mcpExcluded : ServerLists, useSmartEdit : BOOLEAN, autoAccept : BOOLEAN]

\* The toolName pattern of an MCP server's tools (lines 63, 87).
McpPattern(server) == "^mcp://" \o server \o "/.*"

\* One rule per name of the list; `from` records the setting that made it.
RulesOf(names, decision, priority, from) ==
  [k \in 1..Len(names) |->
     [toolName |-> names[k], decision |-> decision, priority |-> priority, from |-> from]]

ExcludeRulesAtAllowed(settings) == RulesOf(settings.exclude, "DENY", 100, "tools.exclude")

\* lines 72-80
ExcludeRules(settings) == RulesOf(settings.exclude, "DENY", 200, "tools.exclude")

\* lines 40-140
CreatePolicyEngineConfig(settings, approvalMode) ==
  [rules |->
     RulesOf(settings.allowed, "ALLOW", 100, "tools.allowed")
     \o RulesOf([k \in 1..Len(settings.mcpAllowed) |-> McpPattern(settings.mcpAllowed[k])],
                "ALLOW", 100, "mcp.allowed")
     \o ExcludeRules(settings)
     \o RulesOf([k \in 1..Len(settings.mcpExcluded) |-> McpPattern(settings.mcpExcluded[k])],
                "DENY", 200, "mcp.excluded")
     \o (IF settings.useSmartEdit
         THEN RulesOf(<<"replace">>, "DENY", 200, "useSmartEdit") ELSE <<>>)
     \o (IF settings.autoAccept
         THEN RulesOf(READ_ONLY_TOOLS, "ALLOW", 50, "autoAccept") ELSE <<>>)
     \o RulesOf(WRITE_TOOLS, "ASK_USER", 10, "write")
     \o (IF approvalMode = "yolo" THEN RulesOf(<<AnyTool>>, "ALLOW", 0, "yolo")
         ELSE IF approvalMode = "autoEdit" THEN RulesOf(<<"edit">>, "ALLOW", 10, "autoEdit")
         ELSE <<>>),
   defaultDecision |-> "ASK_USER"]

\* A call of createPolicyEngineConfig(settings, approvalMode).
CreatePolicyEngineConfigCall ==
  /\ policy.pc = "idle"
  /\ \E settings \in PolicySettings, approvalMode \in ApprovalModes :
       policy' = [pc |-> "done", settings |-> settings, approvalMode |-> approvalMode,
                  config |-> CreatePolicyEngineConfig(settings, approvalMode)]
  /\ UNCHANGED <<extensions, extensionsState, dir, remote, exec, batch, probe, partialIO,
               probes, probeAll, clone, confirmation>>

\* --------------------------- sanitizeConfirmationDetails (policy.ts 153-189)
\* A text is a sequence of pieces: a printable character, a raw ANSI escape
\* sequence (one match of the ansi-regex pattern), or the visible escaped
\* spelling of such a sequence.
Ansi == "<ESC>[31m"
Escaped == "\\u001b[31m"
Texts == {<<>>, <<"l", "s">>, <<Ansi>>, <<Ansi, "l", Ansi>>}
UrlLists == {<<>>} \cup {<<t>> : t \in Texts}

DetailsTypes == {"exec", "edit", "mcp", "info"}
FieldsOf(type) ==
  IF type = "exec" THEN {"title", "command", "rootCommand"}
  ELSE IF type = "edit" THEN {"title", "fileName", "filePath", "fileDiff"}
  ELSE IF type = "mcp" THEN {"title", "serverName", "toolName", "toolDisplayName"}
  ELSE IF type = "info" THEN {"title", "prompt"}
  ELSE {}

NoDetails == [type |-> "undefined", text |-> <<>>, urls |-> <<>>]
Details ==
  UNION {[type : {type}, text : [FieldsOf(type) -> Texts],
          urls : IF type = "info" THEN UrlLists ELSE {<<>>}] : type \in DetailsTypes}

\* line 162: every match of the pattern is replaced by its JSON spelling
\* without the quotes.
SanitizeAnsiCtrl(t) == [k \in DOMAIN t |-> IF t[k] = Ansi THEN Escaped ELSE t[k]]

\* lines 170-189
SanitizeConfirmationDetails(details) ==
  IF details = NoDetails THEN NoDetails
  ELSE IF details.type = "exec"
  THEN [details EXCEPT !.text =
          [f \in DOMAIN @ |-> IF f \in {"command", "rootCommand"} /\ @[f] # <<>>
                              THEN SanitizeAnsiCtrl(@[f]) ELSE @[f]]]
  ELSE details

\* A call of sanitizeConfirmationDetails(details).
SanitizeConfirmationDetailsCall ==
  /\ confirmation.pc = "idle"
  /\ \E details \in Details \cup {NoDetails} :
       confirmation' = [pc |-> "done", details |-> details,
                        result |-> SanitizeConfirmationDetails(details)]
  /\ UNCHANGED <<extensions, extensionsState, dir, remote, exec, batch, probe, partialIO,
               probes, probeAll, clone, policy>>

\* ------------------------------------------------------------ specifications
FullOld == [manifest |-> "old", data |-> [f \in DataFiles |-> "old"]]

TypeOK ==
  /\ extensions \in [Ext -> [type : ExtensionTypes \cup {Unset}, version : Cell,
                            ref : Refs]]
  /\ extensionsState \in [Ext -> ExtensionUpdateState \cup {Absent}]
  /\ dir \in [Ext -> Content]
  /\ remote \in [Ext -> Content]
  /\ \A u \in Exec : exec[u].pc \in {"idle", "createTmpDir", "backup", "uninstall",
                                     "install", "rollback", "cleanup", "done"}
  /\ \A i \in Invocations : batch[i].pc \in {"idle", "pending", "resolved", "rejected"}

\* A single direct call of updateExtension: one extension has any type,
\* any installed content and any release; the call gets any currentState.
InitUpdate ==
  /\ \E e \in Ext, t \in ExtensionTypes \cup {Unset}, c \in InstalledContent,
        r \in RemoteContent :
       /\ extensions = [x \in Ext |-> [type |-> IF x = e THEN t ELSE "local",
                                       version |-> "old", ref |-> NoRef]]
       /\ dir = [x \in Ext |-> IF x = e THEN c ELSE FullOld]
       /\ remote = [x \in Ext |-> IF x = e THEN r ELSE EmptyDir]
  /\ extensionsState = [e \in Ext |-> Absent]
  /\ exec = [u \in Exec |-> IdleExec]
  /\ batch = [i \in Invocations |-> IdleBatch]
  /\ probe = IdleProbe
  /\ partialIO \in BOOLEAN
  /\ probes = [e \in Ext |-> IdleProbe]
  /\ probeAll = IdleProbeAll
  /\ clone = IdleClone
  /\ policy = NoPolicyCall
  /\ confirmation = NoConfirmation

NextUpdate ==
  \/ \E u \in Inv \X Ext, cur \in ExtensionUpdateState : DirectCall(u, cur)
  \/ UpdaterStep

SpecUpdate == InitUpdate /\ [][NextUpdate]_vars

\* One updateAllUpdatableExtensions call over the installed extensions, for
\* any recorded states the probe can have left: UPDATE_AVAILABLE is only ever
\* recorded for a git extension (line 157).  File operations that fail do so
\* before touching the disk; SpecUpdate covers the partial failures.
BatchTypes == {"git", "link", Unset}

InitBatch ==
  /\ extensions \in [Ext -> [type : BatchTypes, version : {"old"}, ref : {NoRef}]]
  /\ extensionsState \in [Ext -> ExtensionUpdateState \cup {Absent}]
  /\ \A e \in Ext : extensionsState[e] = "UPDATE_AVAILABLE" => extensions[e].type = "git"
  /\ dir = [e \in Ext |-> FullOld]
  /\ remote \in [Ext -> {r \in RemoteContent : \A f \in DataFiles : r.data[f] = "new"}]
  /\ exec = [u \in Exec |-> IdleExec]
  /\ batch = [i \in Invocations |-> IdleBatch]
  /\ probe = IdleProbe
  /\ partialIO = FALSE
  /\ probes = [e \in Ext |-> IdleProbe]
  /\ probeAll = IdleProbeAll
  /\ clone = IdleClone
  /\ policy = NoPolicyCall
  /\ confirmation = NoConfirmation

NextBatch ==
  \/ \E i \in Inv : UpdateAllUpdatableExtensions(i)
  \/ UpdaterStep

SpecBatch == InitBatch /\ [][NextBatch]_vars

\* One checkForAllExtensionUpdates call over the installed extensions, for any
\* recorded states, given the mapping held outside.
NextProbeAll ==
  \/ CheckForAllExtensionUpdates
  \/ ProbeAllResume
  \/ ProbesStep

SpecProbeAll == InitBatch /\ [][NextProbeAll]_vars

\* One checkForAllExtensionUpdates call with either kind of setter; a
\* deferring setter runs the queued update functions at any later time.
NextSetter ==
  \/ \E deferred \in BOOLEAN : CheckForAllWithSetter(deferred)
  \/ ProbeAllResume
  \/ ProbesStep
  \/ ApplyDeferred

SpecSetter == InitBatch /\ [][NextSetter]_vars

\* A checkForAllExtensionUpdates call and an updateAllUpdatableExtensions call
\* sharing the mapping, in any order and overlapping in any way.
NextShared ==
  \/ \E i \in Inv : UpdateAllUpdatableExtensions(i)
  \/ UpdaterStep
  \/ CheckForAllExtensionUpdates
  \/ ProbeAllResume
  \/ ProbesStep

\* Installed git extensions, each never probed or with an update available,
\* with work for both calls.
InitShared ==
  /\ extensions = [e \in Ext |-> [type |-> "git", version |-> "old", ref |-> NoRef]]
  /\ extensionsState \in [Ext -> {Absent, "UPDATE_AVAILABLE"}]
  /\ \E e \in Ext : extensionsState[e] = Absent
  /\ \E e \in Ext : extensionsState[e] = "UPDATE_AVAILABLE"
  /\ dir = [e \in Ext |-> FullOld]
  /\ remote = [e \in Ext |-> [manifest |-> "new", data |-> [f \in DataFiles |-> "new"]]]
  /\ exec = [u \in Exec |-> IdleExec]
  /\ batch = [i \in Invocations |-> IdleBatch]
  /\ probe = IdleProbe
  /\ partialIO = FALSE
  /\ probes = [e \in Ext |-> IdleProbe]
  /\ probeAll = IdleProbeAll
  /\ clone = IdleClone
  /\ policy = NoPolicyCall
  /\ confirmation = NoConfirmation

SpecShared == InitShared /\ [][NextShared]_vars

\* The mappings a caller of either orchestrator function can hold: the one
\* held outside now, or the snapshot the other call was given.
HeldSnapshots ==
  {extensionsState}
  \cup {batch[j].passed : j \in {k \in Inv : batch[k].pc # "idle"}}
  \cup (IF probeAll.pc # "idle" THEN {probeAll.passed} ELSE {})

\* A checkForAllExtensionUpdates call and an updateAllUpdatableExtensions call
\* started in either order, the second given the snapshot the first was given
\* or the current mapping, overlapping in any way.
NextSameSnapshot ==
  \/ \E i \in Inv, passed \in HeldSnapshots : UpdateAllGiven(i, passed)
  \/ UpdaterStep
  \/ \E passed \in HeldSnapshots : CheckForAllGiven(passed)
  \/ ProbeAllResume
  \/ ProbesStep

SpecSameSnapshot == InitShared /\ [][NextSameSnapshot]_vars

\* The caller has received the mapping checkForAllExtensionUpdates returned:
\* the invocation and its probes are over.
ProbeAllReturned ==
  /\ probeAll.pc = "done"
  /\ probeAll' = IdleProbeAll
  /\ probes' = [e \in Ext |-> IdleProbe]
  /\ UNCHANGED <<extensions, extensionsState, dir, remote, exec, batch, probe, partialIO,
               clone, policy, confirmation>>

\* The caller has seen invocation i of updateAllUpdatableExtensions settle:
\* the invocation and its executions that have ended are over.
BatchSettled(i) ==
  /\ batch[i].pc \in {"resolved", "rejected"}
  /\ batch' = [batch EXCEPT ![i] = IdleBatch]
  /\ exec' = [u \in Exec |-> IF u[1] = i /\ exec[u].pc = "done" THEN IdleExec ELSE exec[u]]
  /\ UNCHANGED <<extensions, extensionsState, dir, remote, probe, partialIO,
               probes, probeAll, clone, policy, confirmation>>

\* Any sequence of checkForAllExtensionUpdates and updateAllUpdatableExtensions
\* invocations, each started when the one before has settled and given the
\* current mapping, from installed extensions that were never probed.
InitSequence ==
  /\ extensions \in [Ext -> [type : BatchTypes, version : {"old"}, ref : {NoRef}]]
  /\ extensionsState = [e \in Ext |-> Absent]
  /\ dir = [e \in Ext |-> FullOld]
  /\ remote \in {r \in [Ext -> RemoteContent] :
                  \A e \in Ext : r[e] = r[1] /\ \A f \in DataFiles : r[e].data[f] = "new"}
  /\ exec = [u \in Exec |-> IdleExec]
  /\ batch = [i \in Invocations |-> IdleBatch]
  /\ probe = IdleProbe
  /\ partialIO = FALSE
  /\ probes = [e \in Ext |-> IdleProbe]
  /\ probeAll = IdleProbeAll
  /\ clone = IdleClone
  /\ policy = NoPolicyCall
  /\ confirmation = NoConfirmation

NextSequence ==
  \/ \E i \in Inv : probeAll.pc = "idle" /\ UpdateAllGiven(i, extensionsState)
  \/ UpdaterStep
  \/ \E i \in Inv : BatchSettled(i)
  \/ (\A i \in Inv : batch[i].pc = "idle") /\ CheckForAllGiven(extensionsState)
  \/ ProbeAllResume
  \/ ProbesStep
  \/ ProbeAllReturned

SpecSequence == InitSequence /\ [][NextSequence]_vars

\* Two updateAllUpdatableExtensions invocations over the same extensions, the
\* second given the current mapping or the snapshot the first was given, in
\* any interleaving.  One extension has an update available, the others are
\* up to date.
InitTwoBatches ==
  /\ extensions = [e \in Ext |-> [type |-> "git", version |-> "old", ref |-> NoRef]]
  /\ \E e \in Ext :
       extensionsState = [x \in Ext |-> IF x = e THEN "UPDATE_AVAILABLE" ELSE "UP_TO_DATE"]
  /\ dir = [e \in Ext |-> FullOld]
  /\ remote = [e \in Ext |-> [manifest |-> "new", data |-> [f \in DataFiles |-> "new"]]]
  /\ exec = [u \in Exec |-> IdleExec]
  /\ batch = [i \in Invocations |-> IdleBatch]
  /\ probe = IdleProbe
  /\ partialIO = FALSE
  /\ probes = [e \in Ext |-> IdleProbe]
  /\ probeAll = IdleProbeAll
  /\ clone = IdleClone
  /\ policy = NoPolicyCall
  /\ confirmation = NoConfirmation

NextTwoBatches ==
  \/ \E i \in Invocations, passed \in HeldMappings : UpdateAllGiven(i, passed)
  \/ UpdaterStep

SpecTwoBatches == InitTwoBatches /\ [][NextTwoBatches]_vars

\* Everything of the update subsystem at rest.
AtRest ==
  /\ extensions = [e \in Ext |-> [type |-> "local", version |-> "old", ref |-> NoRef]]
  /\ extensionsState = [e \in Ext |-> Absent]
  /\ dir = [e \in Ext |-> FullOld]
  /\ remote = [e \in Ext |-> EmptyDir]
  /\ exec = [u \in Exec |-> IdleExec]
  /\ batch = [i \in Invocations |-> IdleBatch]
  /\ probe = IdleProbe
  /\ partialIO = FALSE
  /\ probes = [e \in Ext |-> IdleProbe]
  /\ probeAll = IdleProbeAll

\* One cloneFromGit call, for any source, ref and adapter behaviour.
InitClone ==
  /\ AtRest
  /\ clone = IdleClone
  /\ policy = NoPolicyCall
  /\ confirmation = NoConfirmation

NextClone ==
  \/ CloneFromGit
  \/ CloneDone
  \/ CloneGetRemotesDone
  \/ CloneFetchDone
  \/ CloneCheckoutDone

SpecClone == InitClone /\ [][NextClone]_vars

\* One createPolicyEngineConfig call, for any settings and approval mode.
NextPolicy == CreatePolicyEngineConfigCall

SpecPolicy == InitClone /\ [][NextPolicy]_vars

\* One sanitizeConfirmationDetails call, for any details object.
NextSanitize == SanitizeConfirmationDetailsCall

SpecSanitize == InitClone /\ [][NextSanitize]_vars

\* A single direct call of checkForExtensionUpdate on an extension of any
\* type, with or without a ref.
InitProbe ==
  /\ \E e \in Ext, t \in ExtensionTypes \cup {Unset}, r \in Refs :
       extensions = [x \in Ext |-> [type |-> IF x = e THEN t ELSE "local",
                                    version |-> "old",
                                    ref |-> IF x = e THEN r ELSE NoRef]]
  /\ extensionsState = [e \in Ext |-> Absent]
  /\ dir = [e \in Ext |-> FullOld]
  /\ remote = [e \in Ext |-> EmptyDir]
  /\ exec = [u \in Exec |-> IdleExec]
  /\ batch = [i \in Invocations |-> IdleBatch]
  /\ probe = IdleProbe
  /\ partialIO = FALSE
  /\ probes = [e \in Ext |-> IdleProbe]
  /\ probeAll = IdleProbeAll
  /\ clone = IdleClone
  /\ policy = NoPolicyCall
  /\ confirmation = NoConfirmation

NextProbe ==
  \/ \E e \in Ext : DirectProbe(e)
  \/ GetRemotesDone
  \/ ListRemoteDone
  \/ RevparseDone

SpecProbe == InitProbe /\ [][NextProbe]_vars

\* ===================================================================== claims
TerminalUpdateStates == {"UPDATED_NEEDS_RESTART", "UP_TO_DATE", "ERROR"}

\* C1: when a step after the backup copy (uninstall, install, post-install
\* manifest load) fails and the rollback copy succeeds, the extension
\* directory at the moment updateExtension rejects has exactly its pre-update
\* contents.
C1_RollbackRestoresExactly ==
  \A u \in Exec :
    (exec[u].outcome.kind = "rejected"
     /\ exec[u].outcome.error \in {ErrUninstall, ErrInstall, ErrNotFound})
    => dir[u[2]] = exec[u].before

\* C2: a batch in which some member's update throws still resolves, and its
\* result list holds the record of every member whose update succeeded.
C2_BatchAbsorbsFailures ==
  \A i \in Inv :
    (/\ batch[i].pc # "idle"
     /\ \A e \in batch[i].members : exec[<<i, e>>].pc = "done"
     /\ \E e \in batch[i].members : exec[<<i, e>>].outcome.kind = "rejected")
    => /\ batch[i].pc = "resolved"
       /\ \A e \in batch[i].members :
            exec[<<i, e>>].outcome.kind = "info"
            => \E k \in 1..Len(batch[i].result) :
                 batch[i].result[k] = exec[<<i, e>>].outcome.info

\* C3: an extension whose entry in the passed mapping is not UPDATE_AVAILABLE
\* gets no updater run: no state is reported for it, no backup, uninstall or
\* install step is made, its directory and entry stay as they were, and no
\* record of it is in the result list.
C3_OnlyUpdateAvailableTouched ==
  \A i \in Inv : \A e \in Ext :
    (batch[i].pc # "idle" /\ batch[i].passed[e] # "UPDATE_AVAILABLE")
    => /\ exec[<<i, e>>].pc = "idle"
       /\ exec[<<i, e>>].reported = <<>>
       /\ exec[<<i, e>>].ops = <<>>
       /\ ~exec[<<i, e>>].tempDir
       /\ extensionsState[e] = batch[i].passed[e]
       /\ dir[e] = FullOld
       /\ \A k \in 1..Len(batch[i].result) : batch[i].result[k].name # e

C3_Witness ==
  \E i \in Inv : \E e, f \in Ext :
    /\ batch[i].pc = "resolved"
    /\ batch[i].passed[e] = "ERROR"
    /\ batch[i].passed[f] = "UPDATE_AVAILABLE"
    /\ Len(batch[i].result) = 1
    /\ batch[i].result[1].name = f

\* C9: called with currentState UPDATING, updateExtension resolves with no
\* result, reports nothing, creates no backup workspace and makes no copy,
\* uninstall or install.
C9_UpdatingIsNoOp ==
  \A u \in Exec :
    (exec[u].pc # "idle" /\ exec[u].currentState = "UPDATING")
    => /\ exec[u].pc = "done"
       /\ exec[u].outcome = Undefined
       /\ exec[u].reported = <<>>
       /\ exec[u].ops = <<>>
       /\ ~exec[u].tempDir
       /\ dir[u[2]] = exec[u].before

C9_Witness ==
  \E u \in Exec :
    /\ exec[u].pc = "done"
    /\ exec[u].currentState = "UPDATING"
    /\ extensions[u[2]].type = "git"
    /\ exec[u].outcome.kind = "undefined"

\* C10: an execution that has reported UPDATING has reported a terminal state
\* (UPDATED_NEEDS_RESTART, UP_TO_DATE or ERROR) by the time it returns or
\* rejects, whichever step fails.
C10_TerminalStateReported ==
  \A u \in Exec :
    (exec[u].pc = "done" /\ exec[u].reported # <<>>)
    => Last(exec[u].reported) \in TerminalUpdateStates

TerminalProbeStates == {"NOT_UPDATABLE", "UP_TO_DATE", "UPDATE_AVAILABLE", "ERROR"}

\* The probe is of a git extension whose first remote has a fetch URL, and
\* listRemote answered a string.
GitWithListing ==
  /\ probe.pc = "done"
  /\ extensions[probe.ext].type = "git"
  /\ probe.threw = "no"
  /\ Len(probe.remotes) > 0
  /\ probe.remotes[1] # NoUrl
  /\ probe.isString

\* h is the substring of s before its first tab (all of s when it has none).
IsListedHash(h, s) ==
  /\ Len(h) <= Len(s)
  /\ \A k \in 1..Len(h) : h[k] = s[k] /\ s[k] # Tab
  /\ Len(h) = Len(s) \/ s[Len(h) + 1] = Tab

Blank(s) == \A k \in 1..Len(s) : s[k] \in {Tab, Space}

ComparisonReported ==
  /\ Last(probe.reported) \in {"UP_TO_DATE", "UPDATE_AVAILABLE"}
  /\ Last(probe.reported) = "UP_TO_DATE"
       <=> IsListedHash(probe.localHash, probe.lsRemoteOutput)

\* C4 as stated: for a git extension with a remote that has a fetch URL and a
\* non-empty remote listing, the probe ends in UP_TO_DATE when the substring
\* of the listing before the first tab equals the local HEAD revision and in
\* UPDATE_AVAILABLE when it differs.
C4_NonEmptyListingCompared ==
  (GitWithListing /\ probe.lsRemoteOutput # <<>>) => ComparisonReported

\* C4 amended: the same, for a listing that is not blank and whose substring
\* before the first tab is not empty, when no adapter call throws.
C4_ParsedListingCompared ==
  (/\ GitWithListing
   /\ ~Blank(probe.lsRemoteOutput)
   /\ ~IsListedHash(<<>>, probe.lsRemoteOutput))
  => ComparisonReported

C4_Witness ==
  /\ GitWithListing
  /\ probe.lsRemoteOutput = <<"a", Tab, "b">>
  /\ probe.localHash = <<"a">>
  /\ Last(probe.reported) = "UP_TO_DATE"

\* C5: for a local or link extension the probe ends in NOT_UPDATABLE and makes
\* no adapter call.
C5_NonRemoteNotUpdatable ==
  (probe.pc # "idle" /\ extensions[probe.ext].type \in {"local", "link"})
  => /\ probe.pc = "done"
     /\ Last(probe.reported) = "NOT_UPDATABLE"
     /\ probe.calls = <<>>

C5_Witness ==
  /\ probe.pc = "done"
  /\ extensions[probe.ext].type = "local"
  /\ probe.reported = <<"CHECKING_FOR_UPDATES", "NOT_UPDATABLE">>

\* C6: for a github-release extension the probe does not end in
\* NOT_UPDATABLE: it asks the adapter and ends in UP_TO_DATE, UPDATE_AVAILABLE
\* or ERROR, as for git.
C6_ReleaseIsProbed ==
  (probe.pc = "done" /\ extensions[probe.ext].type = "github-release")
  => /\ Last(probe.reported) \in {"UP_TO_DATE", "UPDATE_AVAILABLE", "ERROR"}
     /\ probe.calls # <<>>

\* C7: the probe never throws: with zero remotes, or when an adapter call
\* throws, it reports ERROR and returns.
C7_ProbeNeverThrows ==
  /\ probe.returned # "threw"
  /\ (probe.pc = "done"
      /\ \/ probe.threw # "no"
         \/ (Len(probe.calls) = 1 /\ probe.remotes = <<>>))
     => (probe.returned = "returned" /\ Last(probe.reported) = "ERROR")

C7_Witness ==
  /\ probe.pc = "done"
  /\ probe.threw = "revparse"
  /\ probe.returned = "returned"
  /\ Last(probe.reported) = "ERROR"

\* C8: the states a probe reports are CHECKING_FOR_UPDATES and then exactly
\* one terminal state; nothing is reported after the terminal state.
C8_CheckingThenOneTerminal ==
  /\ probe.pc = "idle" => probe.reported = <<>>
  /\ probe.pc \in {"getRemotes", "listRemote", "revparse"}
       => probe.reported = <<"CHECKING_FOR_UPDATES">>
  /\ probe.pc = "done"
       => /\ Len(probe.reported) = 2
          /\ probe.reported[1] = "CHECKING_FOR_UPDATES"
          /\ probe.reported[2] \in TerminalProbeStates

C8_Witness ==
  /\ probe.pc = "done"
  /\ probe.remotes = <<>>
  /\ Len(probe.calls) = 1
  /\ probe.threw = "no"
  /\ probe.reported = <<"CHECKING_FOR_UPDATES", "ERROR">>

\* ------------------------------------------------------------ C11 .. C16
Made(x, op) == \E k \in 1..Len(x.ops) : x.ops[k] = op

\* createTmpDir resolved: the backup copy into the workspace was started.
CreatedWorkspace(x) == Made(x, "copyExtension")

\* C11: when an execution that created a backup workspace has returned or
\* rejected, the workspace is gone: on success, after a successful rollback
\* and after a rollback copy that threw.
C11_WorkspaceDeleted ==
  \A u \in Exec :
    (exec[u].pc = "done" /\ CreatedWorkspace(exec[u]))
    => /\ ~exec[u].tempDir
       /\ Last(exec[u].ops) = "rm"

C11_Witness ==
  \E u \in Exec :
    /\ exec[u].pc = "done"
    /\ CreatedWorkspace(exec[u])
    /\ exec[u].outcome = Rejected(ErrRollback)
    /\ ~exec[u].tempDir

\* The error of the step whose call came just before the rollback copy.
StepBeforeRollback(x) ==
  x.ops[(CHOOSE k \in 1..Len(x.ops) : x.ops[k] = "copyExtension(rollback)") - 1]

ErrorsOfStep(op) ==
  IF op = "copyExtension" THEN {ErrBackup}
  ELSE IF op = "uninstallExtension" THEN {ErrUninstall}
  ELSE IF op = "installExtension" THEN {ErrInstall, ErrNotFound}
  ELSE {}

\* C12: when the backup copy, uninstall, install or post-install verification
\* throws and the rollback copy succeeds, ERROR is the state reported last,
\* the backup workspace's files are back at the extension path, and the call
\* rejects with the error the failing step threw.
C12_RollbackThenRethrow ==
  \A u \in Exec :
    /\ (exec[u].pc = "cleanup" /\ Made(exec[u], "copyExtension(rollback)")
        /\ exec[u].caught # ErrRollback)
       => /\ Last(exec[u].reported) = "ERROR"
          /\ CopyOver(dir[u[2]], exec[u].backup) = dir[u[2]]
          /\ exec[u].caught \in ErrorsOfStep(StepBeforeRollback(exec[u]))
    /\ (exec[u].pc = "done" /\ Made(exec[u], "copyExtension(rollback)")
        /\ exec[u].outcome.error # ErrRollback)
       => /\ Last(exec[u].reported) = "ERROR"
          /\ exec[u].outcome.kind = "rejected"
          /\ exec[u].outcome.error \in ErrorsOfStep(StepBeforeRollback(exec[u]))

C12_Witness ==
  \E u \in Exec :
    /\ exec[u].pc = "done"
    /\ exec[u].outcome = Rejected(ErrInstall)
    /\ Made(exec[u], "copyExtension(rollback)")
    /\ dir[u[2]] = exec[u].before

\* C13: when every step succeeds, the state reported last is
\* UPDATED_NEEDS_RESTART and the result names the extension, with the version
\* it had before and the version of the manifest now installed; and
\* UPDATED_NEEDS_RESTART is reported only after an install that succeeded and
\* left a loadable manifest.
C13_SuccessRecord ==
  \A u \in Exec :
    /\ (exec[u].pc = "done" /\ Made(exec[u], "rm")
        /\ ~Made(exec[u], "copyExtension(rollback)"))
       => /\ Last(exec[u].reported) = "UPDATED_NEEDS_RESTART"
          /\ exec[u].outcome.kind = "info"
          /\ exec[u].outcome.info.name = u[2]
          /\ exec[u].outcome.info.originalVersion = exec[u].before.manifest
          /\ exec[u].outcome.info.updatedVersion = remote[u[2]].manifest
          /\ dir[u[2]] = remote[u[2]]
    /\ (\E k \in 1..Len(exec[u].reported) : exec[u].reported[k] = "UPDATED_NEEDS_RESTART")
       => /\ dir[u[2]] = remote[u[2]]
          /\ remote[u[2]].manifest # "none"
          /\ exec[u].caught = NoError

C13_Witness ==
  \E u \in Exec :
    /\ exec[u].pc = "done"
    /\ exec[u].outcome.kind = "info"
    /\ exec[u].outcome.info = [name |-> u[2], originalVersion |-> "old",
                               updatedVersion |-> "new"]

NoFileWork(u) ==
  /\ exec[u].ops = <<>>
  /\ ~exec[u].tempDir
  /\ dir[u[2]] = exec[u].before

\* C14: called on a link extension with a current state other than UPDATING,
\* updateExtension reports UP_TO_DATE last, rejects with the error saying the
\* extension is linked, and creates no workspace and copies, uninstalls and
\* installs nothing.
C14_LinkRejected ==
  \A u \in Exec :
    (exec[u].pc # "idle" /\ extensions[u[2]].type = "link"
     /\ exec[u].currentState # "UPDATING")
    => /\ exec[u].pc = "done"
       /\ Last(exec[u].reported) = "UP_TO_DATE"
       /\ exec[u].outcome = Rejected(ErrLinked)
       /\ NoFileWork(u)

C14_Witness ==
  \E u \in Exec :
    /\ exec[u].pc = "done"
    /\ extensions[u[2]].type = "link"
    /\ exec[u].currentState = "UPDATE_AVAILABLE"
    /\ exec[u].outcome.kind = "rejected"

\* C15: called on an extension with no type and a current state other than
\* UPDATING, updateExtension reports ERROR last, rejects with an error naming
\* the extension, and creates no workspace and copies, uninstalls and installs
\* nothing.
C15_UnknownTypeRejected ==
  \A u \in Exec :
    (exec[u].pc # "idle" /\ extensions[u[2]].type = Unset
     /\ exec[u].currentState # "UPDATING")
    => /\ exec[u].pc = "done"
       /\ Last(exec[u].reported) = "ERROR"
       /\ exec[u].outcome.kind = "rejected"
       /\ exec[u].outcome.error = ErrTypeUnknown(u[2])
       /\ \A e \in Ext \ {u[2]} : exec[u].outcome.error # ErrTypeUnknown(e)
       /\ NoFileWork(u)

C15_Witness ==
  \E u \in Exec :
    /\ exec[u].pc = "done"
    /\ extensions[u[2]].type = Unset
    /\ exec[u].currentState = "ERROR"
    /\ exec[u].outcome.kind = "rejected"

\* C16: in a batch, a member's failure leaves the siblings running to their
\* own terminal state (UPDATED_NEEDS_RESTART or ERROR), and the failing
\* member's recorded state ends at ERROR with its directory rolled back.
C16_FailureLeavesSiblingsAndRollsBack ==
  \A i \in Inv :
    (/\ batch[i].pc # "idle"
     /\ \A e \in batch[i].members : exec[<<i, e>>].pc = "done"
     /\ \E e \in batch[i].members : exec[<<i, e>>].outcome.kind = "rejected")
    => \A e \in batch[i].members :
         /\ extensionsState[e] \in {"UPDATED_NEEDS_RESTART", "ERROR"}
         /\ exec[<<i, e>>].outcome.kind = "rejected"
            => (extensionsState[e] = "ERROR" /\ dir[e] = exec[<<i, e>>].before)

\* C20: once the batch call has been made, every extension whose passed state
\* is UPDATE_AVAILABLE has had UPDATING reported, so before any member's
\* update completes; no member waits for another to start.
C20_AllLaunchedTogether ==
  \A i \in Inv :
    batch[i].pc # "idle"
    => \A e \in Ext :
         batch[i].passed[e] = "UPDATE_AVAILABLE"
         => /\ exec[<<i, e>>].pc # "idle"
            /\ exec[<<i, e>>].reported # <<>>
            /\ exec[<<i, e>>].reported[1] = "UPDATING"

C20_Witness ==
  \E i \in Inv : \E e, f \in Ext :
    /\ e # f
    /\ batch[i].passed[e] = "UPDATE_AVAILABLE"
    /\ batch[i].passed[f] = "UPDATE_AVAILABLE"
    /\ exec[<<i, e>>].pc = "done"
    /\ exec[<<i, f>>].pc = "createTmpDir"
    /\ exec[<<i, f>>].reported = <<"UPDATING">>

ProbeInFlight(e) == probes[e].pc \notin {"idle", "done"}

\* C17: checkForAllExtensionUpdates is sequential: at most one of its probes
\* is in flight at any moment; when an extension's CHECKING_FOR_UPDATES has
\* been reported, every extension probed before it has had its terminal state
\* reported and its probe has returned; and the extensions are probed in the
\* order of the collection.
C17_ProbesOneAfterAnother ==
  /\ \A e, f \in Ext : ProbeInFlight(e) /\ ProbeInFlight(f) => e = f
  /\ \A i, j \in DOMAIN probeAll.started :
       i < j =>
         /\ probeAll.started[i] < probeAll.started[j]
         /\ probes[probeAll.started[j]].reported # <<>> =>
              /\ probes[probeAll.started[i]].pc = "done"
              /\ Last(probes[probeAll.started[i]].reported) \in TerminalProbeStates
  /\ \A e \in Ext :
       probes[e].reported # <<>> => \E i \in DOMAIN probeAll.started : probeAll.started[i] = e

C17_Witness ==
  /\ probeAll.pc = "awaiting"
  /\ Len(probeAll.started) = 2
  /\ probes[probeAll.started[1]].pc = "done"
  /\ ProbeInFlight(probeAll.started[2])

\* C18: an extension that has an entry in the mapping given to
\* checkForAllExtensionUpdates is not probed: no state is reported for it, no
\* adapter call is made for it, its recorded state stays, and its entry in
\* the returned mapping is the one it had.
C18_RecordedNotProbed ==
  \A e \in Ext :
    probeAll.pc # "idle" /\ probeAll.passed[e] # Absent =>
      /\ probes[e].reported = <<>>
      /\ probes[e].calls = <<>>
      /\ extensionsState[e] = probeAll.passed[e]
      /\ probeAll.pc = "done" => probeAll.returned[e] = probeAll.passed[e]

C18_Witness ==
  /\ probeAll.pc = "done"
  /\ \E e, f \in Ext :
       /\ probeAll.passed[e] = "ERROR"
       /\ probeAll.returned[e] = "ERROR"
       /\ probeAll.passed[f] = Absent
       /\ probeAll.returned[f] \in TerminalProbeStates

\* Extension e's updater or probe reports a state in this step, and the
\* mapping's entry for e becomes that state.
WritesOwnEntry(e) ==
  \/ \E u \in Exec :
       /\ u[2] = e
       /\ Len(exec'[u].reported) > Len(exec[u].reported)
       /\ extensionsState'[e] = Last(exec'[u].reported)
  \/ /\ Len(probes'[e].reported) > Len(probes[e].reported)
     /\ extensionsState'[e] = Last(probes'[e].reported)

\* C19: every write to the shared mapping by checkForAllExtensionUpdates or
\* updateAllUpdatableExtensions leaves every entry as it was in the mapping
\* held outside, except the entry of the extension whose probe or update
\* reports the state.
C19_WritersTouchOwnEntry ==
  [][\A e \in Ext : extensionsState'[e] # extensionsState[e] => WritesOwnEntry(e)]_vars

C19_Witness ==
  \E e, f \in Ext :
    /\ ProbeInFlight(e)
    /\ extensionsState[e] = "CHECKING_FOR_UPDATES"
    /\ \E i \in Inv : exec[<<i, f>>].pc \notin {"idle", "done"}
    /\ extensionsState[f] = "UPDATING"

\* C21: the remote is queried for the extension's ref when it has one and for
\* HEAD when it has none, at the fetch URL of the first remote the adapter
\* listed; the local revision is resolved against HEAD whatever the ref.
C21_ProbeTargets ==
  \A k \in DOMAIN probe.calls :
    /\ probe.calls[k][1] = "listRemote" =>
         /\ probe.remotes # <<>>
         /\ probe.calls[k][2] = probe.remotes[1]
         /\ extensions[probe.ext].ref = NoRef => probe.calls[k][3] = "HEAD"
         /\ extensions[probe.ext].ref # NoRef =>
              probe.calls[k][3] = extensions[probe.ext].ref
    /\ probe.calls[k][1] = "revparse" => probe.calls[k][2] = "HEAD"

C21_Witness ==
  /\ probe.pc = "done"
  /\ extensions[probe.ext].ref = "my-ref"
  /\ Len(probe.remotes) = 2
  /\ probe.remotes[1] # probe.remotes[2]
  /\ probe.calls = <<<<"getRemotes", "true", "">>,
                     <<"listRemote", probe.remotes[1], "my-ref">>,
                     <<"revparse", "HEAD", "">>>>

\* C22: cloneFromGit fails with exactly 'Failed to clone Git repository from
\* <source>' when no remote is found after cloning and when clone,
\* getRemotes, fetch or checkout throws; the underlying error's message does
\* not reach the caller.
C22_CloneFailureMessage ==
  /\ clone.pc = "done" /\ clone.cause # NoError =>
       /\ clone.outcome.kind = "rejected"
       /\ clone.outcome.error = "Failed to clone Git repository from " \o clone.source
       /\ clone.outcome.error # clone.cause
  /\ clone.pc = "done" /\ clone.outcome.kind = "rejected" => clone.cause # NoError

C22_Witness ==
  /\ clone.pc = "done"
  /\ clone.cause = ErrNoRemotes
  /\ clone.outcome = Rejected("Failed to clone Git repository from http://my-repo.com")

RulesFrom(origins) ==
  {policy.config.rules[k] : k \in {j \in DOMAIN policy.config.rules :
                                     policy.config.rules[j].from \in origins}}

\* C23: in the rules of createPolicyEngineConfig every DENY rule of
\* tools.exclude, mcp.excluded or useSmartEdit has priority 200, above every
\* ALLOW rule of tools.allowed or mcp.allowed (100), above every autoAccept
\* rule (50), above the write-tool and AUTO_EDIT rules (10), above the YOLO
\* rule (0); a tool in both allowed and exclude has both rules, DENY higher.
C23_PriorityTiers ==
  policy.pc = "done" =>
    /\ \A r \in RulesFrom({"tools.exclude", "mcp.excluded", "useSmartEdit"}) :
         r.decision = "DENY" /\ r.priority = 200
    /\ \A r \in RulesFrom({"tools.allowed", "mcp.allowed"}) :
         r.decision = "ALLOW" /\ r.priority = 100
    /\ \A r \in RulesFrom({"autoAccept"}) : r.decision = "ALLOW" /\ r.priority = 50
    /\ \A r \in RulesFrom({"write"}) : r.decision = "ASK_USER" /\ r.priority = 10
    /\ \A r \in RulesFrom({"autoEdit"}) : r.decision = "ALLOW" /\ r.priority = 10
    /\ \A r \in RulesFrom({"yolo"}) : r.decision = "ALLOW" /\ r.priority = 0
    /\ \A k \in DOMAIN policy.settings.exclude :
         \E r \in RulesFrom({"tools.exclude"}) : r.toolName = policy.settings.exclude[k]
    /\ \A k \in DOMAIN policy.settings.allowed :
         \E r \in RulesFrom({"tools.allowed"}) : r.toolName = policy.settings.allowed[k]
    /\ \A i \in DOMAIN policy.settings.allowed, j \in DOMAIN policy.settings.exclude :
         policy.settings.allowed[i] = policy.settings.exclude[j] =>
           \E a \in RulesFrom({"tools.allowed"}), d \in RulesFrom({"tools.exclude"}) :
             /\ a.toolName = policy.settings.allowed[i]
             /\ d.toolName = a.toolName
             /\ d.priority > a.priority

C23_Witness ==
  /\ policy.pc = "done"
  /\ policy.settings.allowed = <<"run_shell_command">>
  /\ policy.settings.exclude = <<"run_shell_command">>
  /\ policy.settings.autoAccept
  /\ policy.approvalMode = "yolo"
  /\ Len(policy.config.rules) = 14

HasRawAnsi(t) == \E k \in DOMAIN t : t[k] = Ansi

\* C24: after sanitizeConfirmationDetails no user-visible string field of
\* the details (title, command, rootCommand, fileName, filePath, fileDiff,
\* serverName, toolName, toolDisplayName, prompt, urls), of any type,
\* contains a raw ANSI escape sequence.
C24_NoRawAnsiLeft ==
  confirmation.pc = "done" =>
    /\ \A f \in DOMAIN confirmation.result.text : ~HasRawAnsi(confirmation.result.text[f])
    /\ \A k \in DOMAIN confirmation.result.urls : ~HasRawAnsi(confirmation.result.urls[k])

Position(x, op) == CHOOSE k \in 1..Len(x.ops) : x.ops[k] = op

\* C25: uninstall is started only after the copy into the backup workspace
\* has completed with the whole directory in it, install only after uninstall
\* has completed, and install is called with the extension's own source, type
\* and ref and with forced overwrite.
C25_BackupThenUninstallThenInstall ==
  \A u \in Exec :
    LET x == exec[u] IN
    /\ x.pc \in {"createTmpDir", "backup"} => ~Made(x, "uninstallExtension")
    /\ x.pc \in {"createTmpDir", "backup", "uninstall"} => ~Made(x, "installExtension")
    /\ Made(x, "uninstallExtension") =>
         /\ Made(x, "copyExtension")
         /\ Position(x, "copyExtension") < Position(x, "uninstallExtension")
         /\ x.tempDir => x.backup = x.before
    /\ Made(x, "installExtension") =>
         /\ Made(x, "uninstallExtension")
         /\ Position(x, "uninstallExtension") < Position(x, "installExtension")
         /\ x.installArgs = [source |-> u[2], type |-> extensions[u[2]].type,
                             ref |-> extensions[u[2]].ref, force |-> TRUE]
    /\ x.pc = "install" => dir[u[2]] = EmptyDir

C25_Witness ==
  \E u \in Exec :
    /\ exec[u].pc = "done"
    /\ exec[u].ops = <<"createTmpDir", "copyExtension", "uninstallExtension",
                       "installExtension", "rm">>
    /\ exec[u].installArgs.force

\* C26: for an extension whose type is unset the states updateExtension
\* reports are exactly [ERROR], for a link-type extension exactly
\* [UP_TO_DATE]; UPDATING is reported only when the backup, uninstall and
\* reinstall sequence is going to be attempted.
C26_EarlyExitsBeforeUpdating ==
  \A u \in Exec :
    (exec[u].pc = "done" /\ exec[u].currentState # "UPDATING") =>
      /\ extensions[u[2]].type = Unset => exec[u].reported = <<"ERROR">>
      /\ extensions[u[2]].type = "link" => exec[u].reported = <<"UP_TO_DATE">>
      /\ Made(exec[u], "createTmpDir") \/ ~(\E k \in DOMAIN exec[u].reported :
                                            exec[u].reported[k] = "UPDATING")

Reported(x, state) == \E k \in DOMAIN x.reported : x.reported[k] = state

\* C27 as claimed: when no manifest can be loaded after a successful
\* reinstall, ERROR is reported, UPDATED_NEEDS_RESTART never is, the rollback
\* copy is run, and the call rejects with 'Updated extension not found after
\* installation.'.
C27_NotFoundRejects ==
  \A u \in Exec :
    exec[u].updatedExtension = "none" =>
      /\ Reported(exec[u], "ERROR")
      /\ ~Reported(exec[u], "UPDATED_NEEDS_RESTART")
      /\ Made(exec[u], "copyExtension(rollback)")
      /\ exec[u].pc = "done" =>
           exec[u].outcome = Rejected("Updated extension not found after installation.")

\* C27 amended: the same, except that the call rejects with that error when
\* the rollback copy succeeds and with the rollback copy's error when it
\* throws.
C27_NotFoundRejectsUnlessRollbackFails ==
  \A u \in Exec :
    exec[u].updatedExtension = "none" =>
      /\ Reported(exec[u], "ERROR")
      /\ ~Reported(exec[u], "UPDATED_NEEDS_RESTART")
      /\ Made(exec[u], "copyExtension(rollback)")
      /\ exec[u].pc = "cleanup" =>
           exec[u].caught \in {"Updated extension not found after installation.",
                               ErrRollback}
      /\ exec[u].pc = "done" =>
           \/ exec[u].outcome = Rejected("Updated extension not found after installation.")
           \/ exec[u].outcome = Rejected(ErrRollback)

C27_Witness ==
  \E u \in Exec :
    /\ exec[u].pc = "done"
    /\ exec[u].updatedExtension = "none"
    /\ exec[u].outcome = Rejected("Updated extension not found after installation.")
    /\ dir[u[2]] # EmptyDir

Count(x, op) == Cardinality({k \in 1..Len(x.ops) : x.ops[k] = op})

\* C28: when the rollback copy throws, ERROR has already been reported, the
\* backup workspace is still deleted, and the call then rejects with the
\* rollback copy's error in place of the failing step's; the rollback copy is
\* made once.
C28_RollbackFailurePropagates ==
  \A u \in Exec :
    exec[u].caught = ErrRollback =>
      /\ Last(exec[u].reported) = "ERROR"
      /\ Count(exec[u], "copyExtension(rollback)") = 1
      /\ Last(exec[u].ops) = "rm"
      /\ exec[u].pc \in {"cleanup", "done"}
      /\ exec[u].pc = "cleanup" => exec[u].outcome = Pending
      /\ exec[u].pc = "done" =>
           /\ ~exec[u].tempDir
           /\ exec[u].outcome = Rejected(ErrRollback)

C28_Witness ==
  \E u \in Exec :
    /\ exec[u].pc = "done"
    /\ exec[u].caught = ErrRollback
    /\ StepBeforeRollback(exec[u]) = "uninstallExtension"
    /\ exec[u].outcome = Rejected(ErrRollback)

\* listRemote was called and answered.
ListRemoteAnswered ==
  /\ \E k \in DOMAIN probe.calls : probe.calls[k][1] = "listRemote"
  /\ probe.threw # "listRemote"
  /\ probe.pc \in {"revparse", "done"}

\* The answers the claim calls malformed.
MalformedAnswer ==
  \/ Len(probe.remotes) > 0 /\ probe.remotes[1] = NoUrl
  \/ ListRemoteAnswered /\ ~probe.isString
  \/ ListRemoteAnswered /\ probe.isString /\ Blank(probe.lsRemoteOutput)
  \/ ListRemoteAnswered /\ probe.isString /\ probe.lsRemoteOutput # <<>>
     /\ probe.lsRemoteOutput[1] = Tab

\* C29: for a git extension, when the first remote has no fetch URL, or the
\* remote listing is no string, empty or blank, or nothing precedes the
\* listing's first tab, the probe ends in ERROR without throwing and reports
\* neither UP_TO_DATE nor UPDATE_AVAILABLE.
C29_MalformedAnswersEndInError ==
  (probe.pc # "idle" /\ extensions[probe.ext].type = "git" /\ MalformedAnswer) =>
    /\ \A k \in DOMAIN probe.reported :
         probe.reported[k] \notin {"UP_TO_DATE", "UPDATE_AVAILABLE"}
    /\ probe.returned # "threw"
    /\ probe.pc = "done" =>
         /\ Last(probe.reported) = "ERROR"
         /\ probe.returned = "returned"

C29_Witness ==
  /\ probe.pc = "done"
  /\ extensions[probe.ext].type = "git"
  /\ probe.lsRemoteOutput = <<Tab, "a">>
  /\ probe.localHash = <<"a">>
  /\ probe.reported = <<"CHECKING_FOR_UPDATES", "ERROR">>

Updating(u) == exec[u].pc \notin {"idle", "done"}

\* C30: whatever the interleaving of two updateAllUpdatableExtensions
\* invocations over the same extensions, the second given the current mapping
\* or the snapshot the first was given, no extension has two updateExtension
\* executions between their UPDATING report and their end at the same time.
C30_OneUpdatePerExtension ==
  \A u, v \in Exec : (u[2] = v[2] /\ Updating(u) /\ Updating(v)) => u = v

ProbedSoFar == {probeAll.started[k] : k \in DOMAIN probeAll.started}

\* C31: when checkForAllExtensionUpdates and updateAllUpdatableExtensions
\* are given the same snapshot of the mapping, no extension is both probed
\* and updated, so none is probed and updated at the same time.
C31_ProbedAndUpdatedDisjoint ==
  \A i \in Inv :
    (probeAll.pc # "idle" /\ batch[i].pc # "idle" /\ probeAll.passed = batch[i].passed) =>
      \A e \in Ext :
        /\ ~(e \in ProbedSoFar /\ exec[<<i, e>>].pc # "idle")
        /\ ~(ProbeInFlight(e) /\ Updating(<<i, e>>))

C31_Witness ==
  \E i \in Inv : \E e, f \in Ext :
    /\ probeAll.pc # "idle"
    /\ batch[i].pc # "idle"
    /\ probeAll.passed = batch[i].passed
    /\ extensionsState # probeAll.passed
    /\ ProbeInFlight(e)
    /\ Updating(<<i, f>>)

AllowedTransitions ==
  {<<Absent, "CHECKING_FOR_UPDATES">>,
   <<"CHECKING_FOR_UPDATES", "NOT_UPDATABLE">>, <<"CHECKING_FOR_UPDATES", "UP_TO_DATE">>,
   <<"CHECKING_FOR_UPDATES", "UPDATE_AVAILABLE">>, <<"CHECKING_FOR_UPDATES", "ERROR">>,
   <<"UPDATE_AVAILABLE", "UPDATING">>,
   <<"UPDATING", "UPDATED_NEEDS_RESTART">>, <<"UPDATING", "ERROR">>,
   <<"UPDATING", "UP_TO_DATE">>}

Appended(old, new) ==
  IF Len(new) > Len(old) THEN SubSeq(new, Len(old) + 1, Len(new)) ELSE <<>>

\* The values extension e's entry takes during one step: the value before,
\* then each state the callbacks of its probe and of its update set, in order.
WrittenInStep(e) ==
  LET i == CHOOSE j \in Inv : TRUE IN
  <<extensionsState[e]>>
  \o Appended(probes[e].reported, probes'[e].reported)
  \o Appended(exec[<<i, e>>].reported, exec'[<<i, e>>].reported)

\* C32: under any sequence of non-overlapping checkForAllExtensionUpdates
\* and updateAllUpdatableExtensions invocations, each given the current
\* mapping, an extension's recorded state changes only from absent to
\* CHECKING_FOR_UPDATES, from there to a probe's terminal state, from
\* UPDATE_AVAILABLE to UPDATING, and from there to UPDATED_NEEDS_RESTART, ERROR
\* or UP_TO_DATE; NOT_UPDATABLE, UP_TO_DATE, UPDATED_NEEDS_RESTART and ERROR
\* never change again.
C32_StateTransitions ==
  [][\A e \in Ext :
       LET w == WrittenInStep(e) IN
       /\ extensionsState'[e] = w[Len(w)]
       /\ \A k \in 1..(Len(w) - 1) :
            w[k + 1] # w[k] => <<w[k], w[k + 1]>> \in AllowedTransitions]_vars

\* A second probe-all finds an extension whose update failed and leaves it.
C32_Witness ==
  \E e \in Ext :
    /\ extensionsState[e] = "ERROR"
    /\ extensions[e].type = "git"
    /\ probeAll.pc = "done"
    /\ probeAll.passed[e] = "ERROR"
    /\ \A i \in Inv : batch[i].pc = "idle"

\* C33: the mapping checkForAllExtensionUpdates returns holds, for every
\* extension that had no recorded state, the terminal state its probe
\* reported, and for every other extension the value it had in the mapping
\* held outside, whether the setter applies each update function when called
\* or defers it.
C33_ReturnedMapping ==
  probeAll.pc = "done" =>
    \A e \in Ext :
      IF probeAll.passed[e] = Absent
      THEN /\ probes[e].pc = "done"
           /\ probeAll.returned[e] = Last(probes[e].reported)
      ELSE probeAll.returned[e] = probeAll.passed[e]

====
